---- MODULE Spec2Model ----
(***************************************************************************)
(* A model of richteague/exopopulation:                                    *)
(*   src/plotting.py        planet_marker (per-planet animation state)     *)
(*                          timeline      (the year axis)                  *)
(*   src/get_exoplanets.py  get_exoplanets (catalogue -> text table)       *)
(*                                                                         *)
(* Numbers.  The code computes with Python 3 floats ("/" is true           *)
(* division).  Fade factors, sizes and alphas are modelled as exact        *)
(* rationals <<numerator, denominator>> in lowest terms; animation years   *)
(* and discovery years are integers counting quarter years, so that the    *)
(* jitter rand() - 0.5 has the representable values -2..1; the years given *)
(* to the timeline are integers counting half years, so that np.round has  *)
(* ties to break; catalogue values are naturals, and a value written with  *)
(* '%.4e' is the number its text denotes.                                  *)
(***************************************************************************)
EXTENDS Integers, Sequences, FiniteSets, TLC

VARIABLES
    markers,    \* marker id -> the fields of that planet_marker object
    ax,         \* the axis: the scatter calls received, in order
    calls,      \* the caller's history of plot_marker(ax, year) calls
    upstream,   \* whether oec.get_catalogue() succeeds: "up" or "down"
    cata,       \* the planet entries get_catalogue() returns when it succeeds
    fetches,    \* how often get_catalogue() has been called
    fs,         \* path -> file
    stdout,     \* what print() has written
    pcF,        \* get_exoplanets: "ready", "done", "raised" ("idle": not run)
    args,       \* the arguments given to timeline(years, extend, inverted)
    tl,         \* the timeline object, << >> while there is none
    pcT         \* timeline.__init__: "new", "built", "raised" ("idle": not run)

markerVars == <<markers, ax, calls>>
fetchVars == <<upstream, cata, fetches, fs, stdout, pcF>>
timelineVars == <<args, tl, pcT>>
vars == <<markers, ax, calls, upstream, cata, fetches, fs, stdout, pcF, args, tl, pcT>>

-----------------------------------------------------------------------------
(* Bounds of the model *)

MaxFade == 2
MaxSkips == 2
MaxPairCalls == 2
MaxCat == 3
MaxYears == 3

\* a marker is plotted at most this often: beyond both fade windows
MaxFrames == MaxFade + 2

-----------------------------------------------------------------------------
(* Exact rationals *)

Abs(i) == IF i < 0 THEN -i ELSE i

RECURSIVE GCD(_, _)
GCD(a, b) == IF b = 0 THEN a ELSE GCD(b, a % b)

\* n / d in lowest terms, d > 0
Rat(n, d) == LET g == GCD(Abs(n), d) IN <<n \div g, d \div g>>

RInt(i) == <<i, 1>>
RAdd(p, q) == Rat(p[1] * q[2] + q[1] * p[2], p[2] * q[2])
RMul(p, q) == Rat(p[1] * q[1], p[2] * q[2])
RLt(p, q) == p[1] * q[2] < q[1] * p[2]
RLe(p, q) == p[1] * q[2] <= q[1] * p[2]

\* Python's min(a, b): b when b < a, otherwise a
PyMin(a, b) == IF RLt(b, a) THEN b ELSE a

-----------------------------------------------------------------------------
(* planet_marker *)

MarkerIds == {"a", "b"}

\* inputs of the constructor
Masses == {3}
Axes == {7}
DiscoveryYears == {8000}
FadeFrames == 0 .. MaxFade
\* np.random.rand() is in [0, 1): in quarter years 0 .. 3
RandSet == {0, 3}
\* the years the caller animates (quarter years)
YearSet == {7999, 8000}

\* __init__; rand is the value np.random.rand() returns.  The jitter is
\* "+= rand; -= 0.5", and 0.5 year is 2 quarter years.
planet_marker(mass, semimajor_axis, discovery_year, smooth_discovery, rand, fade_marker, fade_outline) ==
    [mass |-> mass,
     semimajor_axis |-> semimajor_axis,
     discovery_year |-> IF smooth_discovery
                        THEN (discovery_year + rand) - 2
                        ELSE discovery_year,
     _marker_color |-> "orange",
     _marker_start_size |-> 0,
     _marker_final_size |-> 15,
     _marker_start_alpha |-> 0,
     _marker_final_alpha |-> 1,
     _marker_fade_frames |-> fade_marker,
     _outline_width |-> <<1, 2>>,
     _outline_color |-> "black",
     _outline_start_alpha |-> 1,
     _outline_final_alpha |-> 0,
     _outline_start_size |-> 35,
     _outline_final_size |-> 45,
     _outline_fade_frames |-> fade_outline,
     _frames |-> 0]

\* every marker the constructor can build from the inputs above
NewMarkers ==
    { planet_marker(m, s, y, sm, r, fm, fo) :
        m \in Masses, s \in Axes, y \in DiscoveryYears, sm \in BOOLEAN,
        r \in RandSet, fm \in FadeFrames, fo \in FadeFrames }

\* a fade factor without the cap at 1: C2 fails for it
_marker_fade_in_uncapped(self) ==
    IF self._marker_fade_frames > 0
    THEN Rat(self._frames, self._marker_fade_frames)
    ELSE RInt(1)

_marker_fade_in(self) ==
    IF self._marker_fade_frames > 0
    THEN PyMin(RInt(1), Rat(self._frames, self._marker_fade_frames))
    ELSE RInt(1)

_outline_fade_out(self) ==
    IF self._outline_fade_frames > 0
    THEN PyMin(RInt(1), Rat(self._frames, self._outline_fade_frames))
    ELSE RInt(1)

_marker_size(self) ==
    LET size == self._marker_final_size - self._marker_start_size
    IN  RAdd(RInt(self._marker_start_size),
             RMul(RInt(size), _marker_fade_in(self)))

\* a marker alpha that runs from its final to its start value: C3 fails for it
_marker_alpha_fading_out(self) ==
    LET alpha == self._marker_start_alpha - self._marker_final_alpha
    IN  RAdd(RInt(self._marker_final_alpha),
             RMul(RInt(alpha), _marker_fade_in(self)))

_marker_alpha(self) ==
    LET alpha == self._marker_final_alpha - self._marker_start_alpha
    IN  RAdd(RInt(self._marker_start_alpha),
             RMul(RInt(alpha), _marker_fade_in(self)))

_outline_size(self) ==
    LET size == self._outline_final_size - self._outline_start_size
    IN  RAdd(RInt(self._outline_start_size),
             RMul(RInt(size), _outline_fade_out(self)))

_outline_alpha(self) ==
    LET alpha == self._outline_final_alpha - self._outline_start_alpha
    IN  RAdd(RInt(self._outline_start_alpha),
             RMul(RInt(alpha), _outline_fade_out(self)))

\* the two ax.scatter calls of plot_marker; "by" records the calling marker
ScatterMarker(id, self) ==
    [by |-> id, x |-> self.semimajor_axis, y |-> self.mass, marker |-> "o",
     facecolor |-> self._marker_color, edgecolor |-> "none",
     s |-> _marker_size(self), lw |-> <<0, 1>>,
     alpha |-> _marker_alpha(self), zorder |-> 100]

ScatterOutline(id, self) ==
    [by |-> id, x |-> self.semimajor_axis, y |-> self.mass, marker |-> "o",
     facecolor |-> "none", edgecolor |-> self._outline_color,
     s |-> _outline_size(self), lw |-> self._outline_width,
     alpha |-> _outline_alpha(self), zorder |-> 10000]

\* a marker that is not plotted in its discovery year itself: C1 fails for it
Discovered_strict(self, year) == year > self.discovery_year

\* whether plot_marker takes its branch
Discovered(self, year) == year >= self.discovery_year

\* an outline drawn for one frame more: C8 fails for it
OutlineShown_inclusive(self) == self._frames <= self._outline_fade_frames

\* whether plot_marker plots the outline
OutlineShown(self) == self._frames < self._outline_fade_frames

\* plot_marker restarting the animation of a marker called before its
\* discovery year: C4 fails for it
plot_marker_restart(id, year) ==
    LET self == markers[id] IN
    /\ IF Discovered(self, year)
       THEN /\ ax' = ax \o <<ScatterMarker(id, self)>>
                        \o (IF OutlineShown(self)
                            THEN <<ScatterOutline(id, self)>>
                            ELSE << >>)
            /\ markers' = [markers EXCEPT ![id]._frames = @ + 1]
       ELSE /\ ax' = ax
            /\ markers' = [markers EXCEPT ![id]._frames = 0]
    /\ calls' = Append(calls, [id |-> id, year |-> year])
    /\ UNCHANGED <<fetchVars, timelineVars>>

\* plot_marker with one frame counter shared by all markers: C9 fails for it
plot_marker_shared_counter(id, year) ==
    LET self == markers[id] IN
    /\ IF Discovered(self, year)
       THEN /\ ax' = ax \o <<ScatterMarker(id, self)>>
                        \o (IF OutlineShown(self)
                            THEN <<ScatterOutline(id, self)>>
                            ELSE << >>)
            /\ markers' = [m \in DOMAIN markers |->
                              [markers[m] EXCEPT !._frames = @ + 1]]
       ELSE UNCHANGED <<ax, markers>>
    /\ calls' = Append(calls, [id |-> id, year |-> year])
    /\ UNCHANGED <<fetchVars, timelineVars>>

\* plot_marker counting every call, plotted or not: C10 fails for it
plot_marker_counts_every_call(id, year) ==
    LET self == markers[id] IN
    /\ IF Discovered(self, year)
       THEN ax' = ax \o <<ScatterMarker(id, self)>>
                     \o (IF OutlineShown(self)
                         THEN <<ScatterOutline(id, self)>>
                         ELSE << >>)
       ELSE ax' = ax
    /\ markers' = [markers EXCEPT ![id]._frames = @ + 1]
    /\ calls' = Append(calls, [id |-> id, year |-> year])
    /\ UNCHANGED <<fetchVars, timelineVars>>

plot_marker(id, year) ==
    LET self == markers[id] IN
    /\ IF Discovered(self, year)
       THEN /\ ax' = ax \o <<ScatterMarker(id, self)>>
                        \o (IF OutlineShown(self)
                            THEN <<ScatterOutline(id, self)>>
                            ELSE << >>)
            /\ markers' = [markers EXCEPT ![id]._frames = @ + 1]
       ELSE UNCHANGED <<ax, markers>>
    /\ calls' = Append(calls, [id |-> id, year |-> year])
    /\ UNCHANGED <<fetchVars, timelineVars>>

-----------------------------------------------------------------------------
(* The parts that are idle in a specification of another part *)

FetchIdle ==
    /\ upstream = "up"
    /\ cata = << >>
    /\ fetches = 0
    /\ fs = << >>
    /\ stdout = << >>
    /\ pcF = "idle"

TimelineIdle ==
    /\ args = << >>
    /\ tl = << >>
    /\ pcT = "idle"

MarkersIdle ==
    /\ markers = << >>
    /\ ax = << >>
    /\ calls = << >>

-----------------------------------------------------------------------------
(* One marker, animated by a caller that plots it at most MaxFrames times   *)
(* and calls it too early at most MaxSkips times                            *)

Init ==
    /\ markers \in [{"a"} -> NewMarkers]
    /\ ax = << >>
    /\ calls = << >>
    /\ FetchIdle
    /\ TimelineIdle

\* the calls of the history that came before the marker's discovery year
Skips == {i \in 1 .. Len(calls) : ~Discovered(markers[calls[i].id], calls[i].year)}

Plot(id) ==
    \E year \in YearSet :
        /\ Discovered(markers[id], year)
        /\ markers[id]._frames < MaxFrames
        /\ plot_marker(id, year)

Skip(id) ==
    \E year \in YearSet :
        /\ ~Discovered(markers[id], year)
        /\ Cardinality(Skips) < MaxSkips
        /\ plot_marker(id, year)

PlotSome == \E id \in DOMAIN markers : Plot(id)

SkipSome == \E id \in DOMAIN markers : Skip(id)

Next == PlotSome \/ SkipSome

Spec == Init /\ [][Next]_vars

\* the caller keeps plotting the marker
LiveSpec == Spec /\ WF_vars(Plot("a"))

-----------------------------------------------------------------------------
(* Two markers, plotted in any interleaving *)

PairInit ==
    /\ markers \in [MarkerIds -> NewMarkers]
    /\ ax = << >>
    /\ calls = << >>
    /\ FetchIdle
    /\ TimelineIdle

PairNext ==
    \E id \in DOMAIN markers, year \in YearSet :
        /\ Len(calls) < MaxPairCalls
        /\ plot_marker(id, year)

PairSpec == PairInit /\ [][PairNext]_vars

-----------------------------------------------------------------------------
(* What the claims about planet_marker are stated in *)

\* the calls of the history made on marker id with year >= its discovery year
PlotCalls(id) ==
    {i \in 1 .. Len(calls) :
        calls[i].id = id /\ calls[i].year >= markers[id].discovery_year}

\* the filled-marker and the outline scatter calls marker id has issued
FilledIn(a, id) == {i \in 1 .. Len(a) : a[i].by = id /\ a[i].facecolor # "none"}
FilledBy(id) == FilledIn(ax, id)
OutlineBy(id) == {i \in 1 .. Len(ax) : ax[i].by = id /\ ax[i].facecolor = "none"}

\* the call a step appends to the history
LastCall == calls[Len(calls)]

MaxOf(a, b) == IF a >= b THEN a ELSE b
MinOf(a, b) == IF a <= b THEN a ELSE b

Steady(self) ==
    self._frames >= MaxOf(self._marker_fade_frames, self._outline_fade_frames)

\* 0 not yet visible, 1 fading in, 2 steady state
Phase(self) ==
    IF self._frames = 0 THEN 0 ELSE IF Steady(self) THEN 2 ELSE 1

\* C1: a call with year < discovery_year issues no draw and leaves _frames
\* unchanged; a call with year >= discovery_year (year = discovery_year
\* included) draws the filled marker exactly once and adds exactly 1 to
\* _frames; so _frames always equals the number of earlier calls whose year
\* was >= discovery_year.
C1_FramesCountPlots ==
    /\ [](\A id \in DOMAIN markers :
            /\ markers[id]._frames = Cardinality(PlotCalls(id))
            /\ Cardinality(FilledBy(id)) = Cardinality(PlotCalls(id)))
    /\ [][LET id == LastCall'.id
              self == markers[id]
          IN  IF LastCall'.year < self.discovery_year
              THEN /\ ax' = ax
                   /\ markers'[id]._frames = self._frames
              ELSE /\ markers'[id]._frames = self._frames + 1
                   /\ Cardinality(FilledIn(ax', id)) = Cardinality(FilledBy(id)) + 1
                   /\ Len(ax') \in {Len(ax) + 1, Len(ax) + 2}]_vars

\* a marker called too early, then at exactly its discovery year, then again
C1_Witness ==
    \E id \in DOMAIN markers :
        /\ markers[id]._frames = 2
        /\ \E i, j \in 1 .. Len(calls) :
            /\ i < j
            /\ calls[i].year < markers[id].discovery_year
            /\ calls[j].year = markers[id].discovery_year

\* C2: for the marker fade-in factor and the outline fade-out factor alike:
\* with 0 fade frames the factor is exactly 1 whatever _frames is; with
\* F > 0 fade frames it is _frames / F capped at 1, so it lies in [0, 1] and
\* is 1 exactly when _frames >= F.
C2_FadeFactor ==
    \A id \in DOMAIN markers :
        LET self == markers[id]
            n == self._frames
            Ok(f, F) ==
                IF F = 0
                THEN f = <<1, 1>>
                ELSE /\ f[2] > 0
                     /\ 0 <= f[1] /\ f[1] <= f[2]
                     /\ (f[1] = f[2]) <=> (n >= F)
                     /\ n < F => f[1] * F = n * f[2]
        IN  /\ Ok(_marker_fade_in(self), self._marker_fade_frames)
            /\ Ok(_outline_fade_out(self), self._outline_fade_frames)

\* half way through one fade, with the other fade switched off and _frames > 0
C2_Witness ==
    \E id \in DOMAIN markers :
        /\ markers[id]._marker_fade_frames = 2
        /\ markers[id]._outline_fade_frames = 0
        /\ markers[id]._frames = 1
        /\ _marker_fade_in(markers[id]) = <<1, 2>>
        /\ _outline_fade_out(markers[id]) = <<1, 1>>

\* the step of one marker's frame counter from n to n + 1
Advances(id) == markers'[id]._frames = markers[id]._frames + 1

\* C3 as claimed: as _frames advances from n to n + 1 the marker size and
\* alpha do not decrease and the outline size and alpha do not increase.
C3_Original ==
    [][\A id \in DOMAIN markers :
        Advances(id) =>
            /\ RLe(_marker_size(markers[id]), _marker_size(markers'[id]))
            /\ RLe(_marker_alpha(markers[id]), _marker_alpha(markers'[id]))
            /\ RLe(_outline_size(markers'[id]), _outline_size(markers[id]))
            /\ RLe(_outline_alpha(markers'[id]), _outline_alpha(markers[id]))]_vars

\* C3 amended: as _frames advances from n to n + 1 the marker size, the
\* marker alpha and the outline size do not decrease (the outline grows from
\* 35 to 45), and the outline alpha does not increase.
C3_Monotone ==
    [][\A id \in DOMAIN markers :
        Advances(id) =>
            /\ RLe(_marker_size(markers[id]), _marker_size(markers'[id]))
            /\ RLe(_marker_alpha(markers[id]), _marker_alpha(markers'[id]))
            /\ RLe(_outline_size(markers[id]), _outline_size(markers'[id]))
            /\ RLe(_outline_alpha(markers'[id]), _outline_alpha(markers[id]))]_vars

\* a marker in the middle of both fades: the outline has grown to 40
C3_Witness ==
    \E id \in DOMAIN markers :
        /\ markers[id]._frames = 1
        /\ _outline_size(markers[id]) = <<40, 1>>
        /\ _outline_alpha(markers[id]) = <<1, 2>>
        /\ _marker_size(markers[id]) = <<15, 2>>
        /\ _marker_alpha(markers[id]) = <<1, 2>>

\* C4: whatever years the calls carry, _frames never decreases and the
\* phase not-yet-visible -> fading-in -> steady never goes back; and a call
\* with year >= discovery_year on a marker with
\* _frames >= max(fade_marker, fade_outline) draws the filled marker at size
\* 15 and alpha 1, and no outline.
C4_Irreversible ==
    [][/\ \A id \in DOMAIN markers :
            /\ markers'[id]._frames >= markers[id]._frames
            /\ Phase(markers'[id]) >= Phase(markers[id])
       /\ LET id == LastCall'.id
               self == markers[id]
           IN  (Steady(self) /\ LastCall'.year >= self.discovery_year) =>
                   /\ Len(ax') = Len(ax) + 1
                   /\ ax'[Len(ax')].by = id
                   /\ ax'[Len(ax')].facecolor = "orange"
                   /\ ax'[Len(ax')].edgecolor = "none"
                   /\ ax'[Len(ax')].s = <<15, 1>>
                   /\ ax'[Len(ax')].alpha = <<1, 1>>
                   /\ Steady(markers'[id])]_vars

\* a marker with a real fade window that is past it, was then called with an
\* earlier year, and was plotted again after that
C4_Witness ==
    \E id \in DOMAIN markers :
        LET self == markers[id] IN
        /\ MaxOf(self._marker_fade_frames, self._outline_fade_frames) > 0
        /\ \E j, k \in 1 .. Len(calls) :
            /\ j < k
            /\ calls[j].year < self.discovery_year
            /\ calls[k].year >= self.discovery_year
            /\ Cardinality({i \in PlotCalls(id) : i < j})
                   >= MaxOf(self._marker_fade_frames, self._outline_fade_frames)

\* C8: the k-th plotting call of a marker draws the outline exactly when
\* k <= fade_outline (that is, when _frames < fade_outline at the call), so
\* never with fade_outline = 0 and never after the first fade_outline
\* plotting calls; and an outline is only ever drawn right after the filled
\* marker of the same call.
C8_OutlineWindow ==
    /\ \A i \in 1 .. Len(ax) :
        LET id == ax[i].by IN
        IF ax[i].facecolor # "none"
        THEN (i < Len(ax) /\ ax[i + 1].by = id /\ ax[i + 1].facecolor = "none")
                 <=> (Cardinality({k \in FilledBy(id) : k <= i})
                          <= markers[id]._outline_fade_frames)
        ELSE i > 1 /\ ax[i - 1].by = id /\ ax[i - 1].facecolor # "none"
    /\ \A id \in DOMAIN markers :
        Cardinality(OutlineBy(id))
            = MinOf(markers[id]._frames, markers[id]._outline_fade_frames)

\* a marker whose outline was drawn once and has since stopped
C8_Witness ==
    \E id \in DOMAIN markers :
        /\ markers[id]._outline_fade_frames = 1
        /\ markers[id]._frames = 3
        /\ Cardinality(OutlineBy(id)) = 1
        /\ Cardinality(FilledBy(id)) = 3

\* C10: a marker is in steady state exactly when max(fade_marker,
\* fade_outline) of the calls so far were plotting calls (calls with an
\* earlier year neither add to that count nor reset it); once steady it stays
\* steady; and a marker the caller keeps plotting becomes steady.
C10_ReachesSteady ==
    /\ [](\A id \in DOMAIN markers :
            Steady(markers[id]) <=>
                Cardinality(PlotCalls(id))
                    >= MaxOf(markers[id]._marker_fade_frames,
                             markers[id]._outline_fade_frames))
    /\ [][\A id \in DOMAIN markers :
            Steady(markers[id]) => Steady(markers'[id])]_vars
    /\ \A id \in {"a"} :
        (\E year \in YearSet : year >= markers[id].discovery_year)
            ~> [](Steady(markers[id]))

\* steady after two plotting calls, with two too-early calls in between
C10_Witness ==
    \E id \in DOMAIN markers :
        /\ MaxOf(markers[id]._marker_fade_frames,
                 markers[id]._outline_fade_frames) = 2
        /\ markers[id]._frames = 2
        /\ \E i, j, k \in 1 .. Len(calls) :
            /\ i < j /\ j < k
            /\ i \in PlotCalls(id)
            /\ j \notin PlotCalls(id)
            /\ k \in PlotCalls(id)

\* C9: a plot_marker call changes no field of any marker except the _frames
\* of the marker it is called on: every other field of that marker and every
\* field of every other marker stays as it was.
C9_OnlyOwnFrames ==
    [][/\ DOMAIN markers' = DOMAIN markers
       /\ \A id \in DOMAIN markers :
            /\ [markers'[id] EXCEPT !._frames = 0]
                   = [markers[id] EXCEPT !._frames = 0]
            /\ id # LastCall'.id => markers'[id] = markers[id]]_vars

\* two jittered markers, each plotted once
C9_Witness ==
    /\ DOMAIN markers = {"a", "b"}
    /\ markers["a"]._frames = 1
    /\ markers["b"]._frames = 1
    /\ markers["a"].discovery_year # markers["b"].discovery_year
    /\ markers["a"]._outline_fade_frames # markers["b"]._outline_fade_frames

-----------------------------------------------------------------------------
(* get_exoplanets *)

\* A field of a planet entry is << >> when the tag is missing and <<v>> when
\* it holds the number v.
Missing == << >>

Entry(mass, smax, year) ==
    [mass |-> mass, semimajoraxis |-> smax, discoveryyear |-> year]

\* the planet entries a catalogue is drawn from
Entries ==
    { Entry(<<1>>, <<1>>, <<1990>>),
      Entry(<<1>>, <<1>>, <<1980>>),
      Entry(Missing, <<1>>, <<2000>>),
      Entry(<<1>>, Missing, <<1990>>),
      Entry(<<1>>, <<1>>, Missing),
      Entry(<<123456>>, <<2>>, <<1989>>),
      Entry(<<123456>>, <<2>>, <<2000>>),
      Entry(<<2>>, <<987645>>, <<1991>>) }

SeqsUpTo(S, n) == UNION { [1 .. k -> S] : k \in 0 .. n }

Paths == {"exoplanets.txt", "planets.txt"}

NoFile == [exists |-> FALSE, header |-> "", rows |-> << >>]
OldFile == [exists |-> TRUE, header |-> "# old", rows |-> <<<<9, 9, 1999>>>>]

\* findvalue(planet, tag): None or a Number
findvalue(planet, tag) == planet[tag]
value(number) == number[1]

\* "remove those entries which aren't complete"
Incomplete(mass, smax, year) ==
    mass = Missing \/ smax = Missing \/ year = Missing

\* a filter that drops the year 1990 as well: C5 fails for it
SolarSystem_inclusive(year) == value(year) <= 1990

\* "remove solar system bodies"
SolarSystem(year) == value(year) < 1990

\* the loop over cata.findall(".//planet"), from entry i on
RECURSIVE Collect(_, _, _)
Collect(planet_list, i, planets) ==
    IF i > Len(planet_list)
    THEN planets
    ELSE LET planet == planet_list[i]
             smax == findvalue(planet, "semimajoraxis")
             mass == findvalue(planet, "mass")
             year == findvalue(planet, "discoveryyear")
         IN  IF Incomplete(mass, smax, year)
             THEN Collect(planet_list, i + 1, planets)
             ELSE IF SolarSystem(year)
                  THEN Collect(planet_list, i + 1, planets)
                  ELSE Collect(planet_list, i + 1,
                               planets \o <<<<value(mass), value(smax), value(year)>>>>)

RECURSIVE Pow10(_)
Pow10(e) == IF e = 0 THEN 1 ELSE 10 * Pow10(e - 1)

\* the decimal exponent of v >= 1
RECURSIVE Exponent(_)
Exponent(v) == IF v < 10 THEN 0 ELSE 1 + Exponent(v \div 10)

\* '%.4e' % v, read back as a number: v with a mantissa of 1 + 4 digits,
\* rounded to nearest and on a tie to the even digit
Fmt4e(v) ==
    IF v = 0 \/ Exponent(v) <= 4
    THEN v
    ELSE LET unit == Pow10(Exponent(v) - 4)
             q == v \div unit
             r == v % unit
             up == (2 * r > unit) \/ (2 * r = unit /\ q % 2 = 1)
         IN  (IF up THEN q + 1 ELSE q) * unit

\* np.savetxt(output, planets, header=header, fmt='%.4e')
savetxt(planets, header) ==
    [exists |-> TRUE,
     header |-> header,
     rows |-> [i \in 1 .. Len(planets) |->
                  [j \in 1 .. Len(planets[i]) |-> Fmt4e(planets[i][j])]]]

\* get_exoplanets catching the failure and saving an empty table: C7 fails
\* for it
get_exoplanets_swallow(output) ==
    /\ pcF = "ready"
    /\ fetches' = fetches + 1
    /\ LET planets == IF upstream = "down" THEN << >> ELSE Collect(cata, 1, << >>)
           header == "# mass (Mjup), semi-major axis (au), discovery year"
       IN  /\ fs' = [fs EXCEPT ![output] = savetxt(planets, header)]
           /\ stdout' = Append(stdout, [count |-> Len(planets), output |-> output])
           /\ pcF' = "done"
    /\ UNCHANGED <<upstream, cata, markerVars, timelineVars>>

get_exoplanets(output) ==
    /\ pcF = "ready"
    /\ fetches' = fetches + 1
    /\ IF upstream = "down"
       THEN /\ pcF' = "raised"
            /\ UNCHANGED <<fs, stdout>>
       ELSE LET planets == Collect(cata, 1, << >>)
                header == "# mass (Mjup), semi-major axis (au), discovery year"
            IN  /\ fs' = [fs EXCEPT ![output] = savetxt(planets, header)]
                /\ stdout' = Append(stdout, [count |-> Len(planets), output |-> output])
                /\ pcF' = "done"
    /\ UNCHANGED <<upstream, cata, markerVars, timelineVars>>

FetchInit ==
    /\ upstream \in {"up", "down"}
    /\ cata \in SeqsUpTo(Entries, MaxCat)
    /\ fetches = 0
    /\ fs \in [Paths -> {NoFile, OldFile}]
    /\ stdout = << >>
    /\ pcF = "ready"
    /\ MarkersIdle
    /\ TimelineIdle

FetchNext == \E output \in Paths : get_exoplanets(output)

FetchSpec == FetchInit /\ [][FetchNext]_vars

-----------------------------------------------------------------------------
(* What the claims about get_exoplanets are stated in *)

\* an entry with all three fields and a discovery year of 1990 or later
Qualifies(e) ==
    /\ e.mass # Missing /\ e.semimajoraxis # Missing /\ e.discoveryyear # Missing
    /\ e.discoveryyear[1] >= 1990

RowOf(e) == <<e.mass[1], e.semimajoraxis[1], e.discoveryyear[1]>>

\* the rows of the qualifying entries, in catalogue order
QualifyingRows ==
    LET kept == SelectSeq(cata, Qualifies)
    IN  [i \in 1 .. Len(kept) |-> RowOf(kept[i])]

\* w is v to five significant digits: a multiple of the unit of v's fifth
\* digit, at most half a unit from v
FiveDigitsOf(v, w) ==
    IF v < 100000
    THEN w = v
    ELSE LET unit == Pow10(Exponent(v) - 4)
         IN  w % unit = 0 /\ 2 * Abs(w - v) <= unit

\* the file the finished run wrote, and the count it printed
Written == fs[stdout[Len(stdout)].output]
Reported == stdout[Len(stdout)].count

\* C5 as claimed: the rows written are exactly the rows [mass,
\* semimajorAxis, discoveryYear] of the entries with all three fields and
\* discoveryYear >= 1990, in catalogue order, and the count reported is the
\* number of rows written.
C5_Original ==
    pcF = "done" =>
        /\ Len(stdout) = 1
        /\ Written.exists
        /\ Written.rows = QualifyingRows
        /\ Reported = Len(Written.rows)

\* C5 amended: the rows written are, in catalogue order and with nothing
\* added or duplicated, the rows of the entries with all three fields and
\* discoveryYear >= 1990, each value to the five significant digits of
\* '%.4e'; the count reported is the number of rows written.
C5_RowsWritten ==
    pcF = "done" =>
        /\ Len(stdout) = 1
        /\ Written.exists
        /\ Len(Written.rows) = Len(QualifyingRows)
        /\ \A i \in 1 .. Len(QualifyingRows) :
            /\ Len(Written.rows[i]) = 3
            /\ \A j \in 1 .. 3 :
                FiveDigitsOf(QualifyingRows[i][j], Written.rows[i][j])
        /\ Reported = Len(Written.rows)

\* a finished run over a catalogue with an incomplete entry, an entry from
\* before 1990 and an entry whose mass has six significant digits
C5_Witness ==
    /\ pcF = "done"
    /\ cata = <<Entry(<<123456>>, <<2>>, <<2000>>),
                Entry(Missing, <<1>>, <<2000>>),
                Entry(<<1>>, <<1>>, <<1980>>)>>
    /\ Written.rows = <<<<123460, 2, 2000>>>>
    /\ Reported = 1

\* C7: when retrieving or parsing the catalogue fails the run ends raised
\* after a single get_catalogue call, with every file as it was before the
\* run (none created, none overwritten) and nothing printed.
C7_FailurePropagates ==
    /\ [](upstream = "down" /\ pcF # "ready" =>
            pcF = "raised" /\ fetches = 1 /\ stdout = << >>)
    /\ [][upstream = "down" => fs' = fs /\ pcF' = "raised"]_vars

\* a failed run over a catalogue with rows to write, beside an old output
\* file and a path with no file
C7_Witness ==
    /\ pcF = "raised"
    /\ QualifyingRows # << >>
    /\ fs["exoplanets.txt"] = OldFile
    /\ fs["planets.txt"] = NoFile

-----------------------------------------------------------------------------
(* timeline *)

\* the years given to the constructor, in half years:
\* 1974, 1994.5, 1995, 1995.5, 2026 and 2031
TimelineYears == {3948, 3989, 3990, 3991, 4052, 4062}

\* np.round of h half years, in years: to nearest, a tie to the even year
np_round(h) ==
    IF h % 2 = 0
    THEN h \div 2
    ELSE IF ((h - 1) \div 2) % 2 = 0 THEN (h - 1) \div 2 ELSE (h + 1) \div 2

SetMin(S) == CHOOSE x \in S : \A y \in S : x <= y
SetMax(S) == CHOOSE x \in S : \A y \in S : x >= y

RECURSIVE Ascending(_)
Ascending(S) ==
    IF S = {} THEN << >> ELSE <<SetMin(S)>> \o Ascending(S \ {SetMin(S)})

\* np.unique: the distinct values, sorted
np_unique(a) == Ascending({a[i] : i \in 1 .. Len(a)})

RECURSIVE np_arange(_, _, _)
np_arange(start, stop, step) ==
    IF start >= stop THEN << >> ELSE <<start>> \o np_arange(start + step, stop, step)

\* a mask that keeps the least year itself: C6 fails for it
Above_inclusive(a, lo) == SelectSeq(a, LAMBDA y : y >= lo)

\* a[a > lo] and a[a < hi]
Above(a, lo) == SelectSeq(a, LAMBDA y : y > lo)
Below(a, hi) == SelectSeq(a, LAMBDA y : y < hi)

ArrayMin(a) == SetMin({a[i] : i \in 1 .. Len(a)})
ArrayMax(a) == SetMax({a[i] : i \in 1 .. Len(a)})

\* timeline.__init__; min() of an empty array raises ValueError
timeline_init ==
    /\ pcT = "new"
    /\ LET unique_years == np_unique([i \in 1 .. Len(args.years) |-> np_round(args.years[i])])
           all_labels == np_arange(1980, 2030, 5)
       IN  IF unique_years = << >>
           THEN /\ pcT' = "raised"
                /\ tl' = << >>
           ELSE /\ pcT' = "built"
                /\ tl' = [years |-> args.years,
                          unique_years |-> unique_years,
                          labeled_years |->
                              Below(Above(all_labels, ArrayMin(unique_years)),
                                    ArrayMax(unique_years)),
                          _smooth |-> 40,
                          _extend |-> args.extend,
                          _color |-> IF args.inverted THEN "w" ELSE "k",
                          _edge_color |-> IF args.inverted THEN "k" ELSE "w",
                          _edge_width |-> <<3, 2>>,
                          _size |-> 20]
    /\ UNCHANGED <<args, markerVars, fetchVars>>

TimelineInit ==
    /\ args \in [years : SeqsUpTo(TimelineYears, MaxYears),
                  extend : {2},
                  inverted : BOOLEAN]
    /\ tl = << >>
    /\ pcT = "new"
    /\ MarkersIdle
    /\ FetchIdle

TimelineNext == timeline_init

TimelineSpec == TimelineInit /\ [][TimelineNext]_vars

-----------------------------------------------------------------------------
(* What the claim about timeline is stated in *)

UniqueSet == {tl.unique_years[i] : i \in 1 .. Len(tl.unique_years)}
LabeledSet == {tl.labeled_years[i] : i \in 1 .. Len(tl.labeled_years)}

\* the multiples of 5 strictly between the least and the greatest unique year
FivesBetween ==
    {y \in SetMin(UniqueSet) + 1 .. SetMax(UniqueSet) - 1 : y % 5 = 0}

\* C6 as claimed: labeled_years is a subset of unique_years and holds
\* exactly the multiples of 5 strictly between min(unique_years) and
\* max(unique_years).
C6_Original ==
    pcT = "built" =>
        /\ LabeledSet \subseteq UniqueSet
        /\ LabeledSet = FivesBetween

\* C6 amended: labeled_years holds, once each and in ascending order,
\* exactly the multiples of 5 from 1980 to 2025 that lie strictly between
\* min(unique_years) and max(unique_years); unique_years holds the rounded
\* years once each in ascending order.
C6_LabeledYears ==
    pcT = "built" =>
        /\ LabeledSet = {y \in FivesBetween : 1980 <= y /\ y <= 2025}
        /\ \A i, j \in 1 .. Len(tl.labeled_years) :
            i < j => tl.labeled_years[i] < tl.labeled_years[j]
        /\ UniqueSet = {np_round(args.years[i]) : i \in 1 .. Len(args.years)}
        /\ \A i, j \in 1 .. Len(tl.unique_years) :
            i < j => tl.unique_years[i] < tl.unique_years[j]

\* a timeline from 1974 over 1994.5 (rounded down to 1994) to 2031: 1975 and
\* 2030 lie between but are not labeled, and the labeled 1980 is no unique year
C6_Witness ==
    /\ pcT = "built"
    /\ UniqueSet = {1974, 1994, 2031}
    /\ LabeledSet = {1980, 1985, 1990, 1995, 2000, 2005, 2010, 2015, 2020, 2025}

====
